---- MODULE Spec2Model ----
(***************************************************************************)
(* infra-config: the transform-and-policy engine (TransformContext, the    *)
(* database and storage transformers with their policy evaluators) and the *)
(* `transform` command that sequences them.                                *)
(*                                                                         *)
(* Strings the code inspects character by character (project, environment  *)
(* value, generated names, tag values) are sequences of one-character      *)
(* strings.  Strings the code only passes around or compares whole (enum   *)
(* members, tag keys, container names, SKU names, messages) are TLA+       *)
(* strings.  A policy message is a tuple of its parts, so that an f-string *)
(* keeps the interpolated value visible.                                   *)
(***************************************************************************)
EXTENDS Integers, Sequences, FiniteSets, TLC

VARIABLES
    input,             \* what load_config finds at config_path
    config,            \* the InfraConfig, once loaded (None before)
    role,              \* the --role option
    pc,                \* position of the command / "ctx" for a bare Context
    all_errors,        \* cli.transform: all_errors
    validated,         \* transformer names whose validate_policies has run
    transformed,       \* transformer names whose transform has been invoked
    output_dir_created,\* output_dir.mkdir has run
    files,             \* output files written: file name -> document
    generated_files,   \* cli.transform: generated_files
    exit_code,         \* process exit status, once the command has ended
    last               \* the last operation called on the Context, with its result

vars == <<input, config, role, pc, all_errors, validated, transformed,
          output_dir_created, files, generated_files, exit_code, last>>

(***************************************************************************)
(* Optional values (Python None / a value) and raised exceptions.          *)
(***************************************************************************)
None == [kind |-> "None"]
Some(v) == [kind |-> "Some", value |-> v]
Raised(e) == [kind |-> "Raised", exc |-> e]
IsSome(o) == o.kind = "Some"

Min(a, b) == IF a <= b THEN a ELSE b

(***************************************************************************)
(* Characters.                                                             *)
(***************************************************************************)
Lowers == <<"a","b","c","d","e","f","g","h","i","j","k","l","m",
            "n","o","p","q","r","s","t","u","v","w","x","y","z">>
Uppers == <<"A","B","C","D","E","F","G","H","I","J","K","L","M",
            "N","O","P","Q","R","S","T","U","V","W","X","Y","Z">>
LowerLetters == {Lowers[i] : i \in DOMAIN Lowers}
UpperLetters == {Uppers[i] : i \in DOMAIN Uppers}
Digits == {"0","1","2","3","4","5","6","7","8","9"}

\* str.lower() on one character (ASCII)
LowerChar(c) ==
    IF c \in UpperLetters
    THEN Lowers[CHOOSE i \in DOMAIN Uppers : Uppers[i] = c]
    ELSE c

\* str.lower()
Lower(s) == [i \in 1..Len(s) |-> LowerChar(s[i])]

\* str.isalpha() on one character (ASCII)
IsAlpha(c) == c \in LowerLetters \cup UpperLetters

\* s[:n]
Take(s, n) == SubSeq(s, 1, Min(Len(s), n))

\* re.sub(r"[^a-z0-9-]", "-", s)
SubInvalidWithHyphen(s) ==
    [i \in 1..Len(s) |->
        IF s[i] \in LowerLetters \cup Digits \cup {"-"} THEN s[i] ELSE "-"]

IsLowerAlnum(c) == c \in LowerLetters \cup Digits

\* re.sub(r"[^a-z0-9]", "", s)
RemoveNonAlnum(s) == SelectSeq(s, IsLowerAlnum)

(***************************************************************************)
(* models/config.py: the enums and the field constraints.                  *)
(***************************************************************************)
Environment == {"dev", "staging", "production"}
DatabaseTier == {"starter", "standard", "premium", "enterprise"}
StorageTier == {"basic", "standard", "premium"}
ContainerAccess == {"private", "blob", "container"}
UserRole == {"developer", "team_lead", "platform_admin"}

\* Environment.value, as characters
EnvValue(e) ==
    CASE e = "dev" -> <<"d","e","v">>
      [] e = "staging" -> <<"s","t","a","g","i","n","g">>
      [] e = "production" -> <<"p","r","o","d","u","c","t","i","o","n">>

MaxProjectLen == 20
MinBackupRetention == 7
MaxBackupRetention == 35
MinStorageGb == 32
MaxStorageGb == 16384

\* InfraConfig.project: min_length=1, max_length=20, ^[a-z][a-z0-9-]*$
ValidProject(p) ==
    /\ Len(p) >= 1
    /\ Len(p) <= MaxProjectLen
    /\ p[1] \in LowerLetters
    /\ \A i \in 1..Len(p) : p[i] \in LowerLetters \cup Digits \cup {"-"}

\* DatabaseConfig field constraints
ValidDatabase(db) ==
    /\ db.tier \in DatabaseTier
    /\ db.storage_gb >= MinStorageGb /\ db.storage_gb <= MaxStorageGb
    /\ db.version \in {"11", "12", "13", "14", "15", "16"}
    /\ db.high_availability \in BOOLEAN
    /\ db.backup_retention_days >= MinBackupRetention
    /\ db.backup_retention_days <= MaxBackupRetention

\* StorageConfig field constraints (container names are validated upstream)
ValidStorage(st) ==
    /\ st.tier \in StorageTier
    /\ \A i \in 1..Len(st.containers) : st.containers[i].access \in ContainerAccess

\* InfraConfig: what model_validate accepts
ValidConfig(c) ==
    /\ ValidProject(c.project)
    /\ c.environment \in Environment
    /\ IsSome(c.database) => ValidDatabase(c.database.value)
    /\ IsSome(c.storage) => ValidStorage(c.storage.value)

(***************************************************************************)
(* transformers/base.py: TransformContext.                                 *)
(***************************************************************************)
TransformContext(cfg, r) == [config |-> cfg, role |-> r]

is_production(ctx) == ctx.config.environment = "production"

resource_group_name(ctx) ==
    <<"r","g","-">> \o ctx.config.project \o <<"-">> \o EnvValue(ctx.config.environment)

ManagedBy == <<"i","n","f","r","a","-","c","o","n","f","i","g">>

\* Python truthiness of an optional string: set and not empty
Truthy(o) == IsSome(o) /\ o.value # <<>>

\* standard tags whose owner is taken from cost_center
standard_tagsOwnerFromCostCenter(ctx) ==
    LET keys == {"project", "environment", "managed_by"}
                \cup (IF Truthy(ctx.config.owner) THEN {"owner"} ELSE {})
                \cup (IF Truthy(ctx.config.cost_center) THEN {"cost_center"} ELSE {})
    IN  [k \in keys |->
            CASE k = "project" -> ctx.config.project
              [] k = "environment" -> EnvValue(ctx.config.environment)
              [] k = "managed_by" -> ManagedBy
              [] k = "owner" -> IF IsSome(ctx.config.cost_center)
                                THEN ctx.config.cost_center.value
                                ELSE <<>>
              [] k = "cost_center" -> ctx.config.cost_center.value]

\* the standard_tags dict of get_tags, before user tags are applied
standard_tags(ctx) ==
    LET keys == {"project", "environment", "managed_by"}
                \cup (IF Truthy(ctx.config.owner) THEN {"owner"} ELSE {})
                \cup (IF Truthy(ctx.config.cost_center) THEN {"cost_center"} ELSE {})
    IN  [k \in keys |->
            CASE k = "project" -> ctx.config.project
              [] k = "environment" -> EnvValue(ctx.config.environment)
              [] k = "managed_by" -> ManagedBy
              [] k = "owner" -> ctx.config.owner.value
              [] k = "cost_center" -> ctx.config.cost_center.value]

\* {**b, **a}: the first mapping wins
DictMergeFirstWins(a, b) ==
    [k \in DOMAIN a \cup DOMAIN b |-> IF k \in DOMAIN a THEN a[k] ELSE b[k]]

\* {**a, **b}
DictMerge(a, b) ==
    [k \in DOMAIN a \cup DOMAIN b |-> IF k \in DOMAIN b THEN b[k] ELSE a[k]]

get_tags(ctx) == DictMerge(standard_tags(ctx), ctx.config.tags)

(***************************************************************************)
(* transformers/database.py                                                *)
(***************************************************************************)
\* a table with the standard and premium SKUs exchanged
TIER_TO_SKUSwapped ==
    [starter |-> "B_Standard_B1ms",
     standard |-> "GP_Standard_D4s_v3",
     premium |-> "GP_Standard_D2s_v3",
     enterprise |-> "MO_Standard_E4s_v3"]

TIER_TO_SKU ==
    [starter |-> "B_Standard_B1ms",
     standard |-> "GP_Standard_D2s_v3",
     premium |-> "GP_Standard_D4s_v3",
     enterprise |-> "MO_Standard_E4s_v3"]

MaxDbNameLen == 63

Psql == <<"p","s","q","l","-">>

\* a generator whose starts-with-a-letter test is inverted
DatabaseGenerateNameAlwaysPrefix(project, environment) ==
    LET raw == Psql \o project \o <<"-">> \o environment
        clean == SubInvalidWithHyphen(Lower(raw))
        name == IF IsAlpha(clean[1]) THEN Psql \o clean ELSE clean
    IN  Take(name, MaxDbNameLen)

\* a generator that truncates one character too late
DatabaseGenerateNameOffByOne(project, environment) ==
    LET raw == Psql \o project \o <<"-">> \o environment
        clean == SubInvalidWithHyphen(Lower(raw))
        name == IF ~IsAlpha(clean[1]) THEN Psql \o clean ELSE clean
    IN  Take(name, MaxDbNameLen + 1)

\* DatabaseTransformer._generate_name
DatabaseGenerateName(project, environment) ==
    LET raw == Psql \o project \o <<"-">> \o environment
        clean == SubInvalidWithHyphen(Lower(raw))
        name == IF ~IsAlpha(clean[1]) THEN Psql \o clean ELSE clean
    IN  Take(name, MaxDbNameLen)

\* an output model that demands the production retention of every document
PostgreSQLTfVarsStrict(fields) ==
    IF /\ fields.backup_retention_days >= 14
       /\ fields.backup_retention_days <= MaxBackupRetention
    THEN Some(fields)
    ELSE Raised("ValidationError")

\* PostgreSQLTfVars(...).model_dump(): the output model checks its field constraint
PostgreSQLTfVars(fields) ==
    IF /\ fields.backup_retention_days >= MinBackupRetention
       /\ fields.backup_retention_days <= MaxBackupRetention
    THEN Some(fields)
    ELSE Raised("ValidationError")

\* a conversion with the decimal factor
StorageMbDecimal(storage_gb) == storage_gb * 1000

\* storage_mb=db.storage_gb * 1024
StorageMb(storage_gb) == storage_gb * 1024

\* geo-redundant backup for every production database, whatever its tier
GeoRedundantAnyTier(ctx, db) == is_production(ctx)

\* geo_redundant = ctx.is_production and db.tier != DatabaseTier.STARTER
GeoRedundant(ctx, db) == is_production(ctx) /\ db.tier # "starter"

\* ha_mode = "ZoneRedundant" if db.high_availability else "Disabled"
HighAvailabilityMode(db) ==
    IF db.high_availability THEN "ZoneRedundant" ELSE "Disabled"

\* a zone that is set whether or not high availability is
ZoneAlways(db) == Some("1")

\* zone="1" if db.high_availability else None
Zone(db) == IF db.high_availability THEN Some("1") ELSE None

\* the keyword arguments DatabaseTransformer.transform builds, with the model's defaults
DatabaseTfVars(ctx, db) ==
    [name |-> DatabaseGenerateName(ctx.config.project,
                                   EnvValue(ctx.config.environment)),
     resource_group_name |-> resource_group_name(ctx),
     location |-> ctx.config.region,
     sku_name |-> TIER_TO_SKU[db.tier],
     storage_mb |-> StorageMb(db.storage_gb),
     postgresql_version |-> db.version,
     administrator_login |-> "pgadmin",
     backup_retention_days |-> db.backup_retention_days,
     geo_redundant_backup_enabled |-> GeoRedundant(ctx, db),
     high_availability_mode |-> HighAvailabilityMode(db),
     zone |-> Zone(db),
     database_name |-> "app",
     tags |-> get_tags(ctx)]

\* a transform that answers an unset database with an empty document
DatabaseTransformEmptyDocument(ctx) ==
    IF ~IsSome(ctx.config.database) THEN Some([k \in {} |-> None])
    ELSE PostgreSQLTfVars(DatabaseTfVars(ctx, ctx.config.database.value))

\* DatabaseTransformer.transform
DatabaseTransform(ctx) ==
    IF ~IsSome(ctx.config.database) THEN None
    ELSE PostgreSQLTfVars(DatabaseTfVars(ctx, ctx.config.database.value))

DbMsgProductionTier ==
    <<"Production environment requires 'standard' tier or higher for database">>
DbMsgEnterpriseRole ==
    <<"Enterprise tier requires 'team_lead' or 'platform_admin' role">>
DbMsgHaTier ==
    <<"High availability requires 'standard' tier or higher">>
DbMsgBackupRetention ==
    <<"Production environment requires minimum 14 days backup retention">>

MinProductionRetention == 14

\* errors.append(msg) under `if cond:`
AppendIf(cond, errors, msg) == IF cond THEN Append(errors, msg) ELSE errors

\* the four checks chained with elif: only the first violated rule is reported
DatabaseValidatePoliciesShortCircuit(ctx) ==
    IF ~IsSome(ctx.config.database) THEN <<>>
    ELSE LET db == ctx.config.database.value
         IN  IF is_production(ctx) /\ db.tier = "starter"
                THEN <<DbMsgProductionTier>>
             ELSE IF db.tier = "enterprise" /\ ctx.role = "developer"
                THEN <<DbMsgEnterpriseRole>>
             ELSE IF db.high_availability /\ db.tier = "starter"
                THEN <<DbMsgHaTier>>
             ELSE IF is_production(ctx)
                       /\ db.backup_retention_days < MinProductionRetention
                THEN <<DbMsgBackupRetention>>
             ELSE <<>>

\* DatabaseTransformer.validate_policies
DatabaseValidatePolicies(ctx) ==
    IF ~IsSome(ctx.config.database) THEN <<>>
    ELSE LET db == ctx.config.database.value
             e1 == AppendIf(is_production(ctx) /\ db.tier = "starter",
                            <<>>, DbMsgProductionTier)
             e2 == AppendIf(db.tier = "enterprise" /\ ctx.role = "developer",
                            e1, DbMsgEnterpriseRole)
             e3 == AppendIf(db.high_availability /\ db.tier = "starter",
                            e2, DbMsgHaTier)
             e4 == AppendIf(is_production(ctx)
                              /\ db.backup_retention_days < MinProductionRetention,
                            e3, DbMsgBackupRetention)
         IN  e4

(***************************************************************************)
(* transformers/storage.py                                                 *)
(***************************************************************************)
TIER_TO_ACCOUNT_TIER ==
    [basic |-> "Standard", standard |-> "Standard", premium |-> "Premium"]

\* a table that gives the standard tier plain GRS in production
TIER_TO_REPLICATIONNoReadAccess ==
    [basic |-> [dev |-> "LRS", staging |-> "LRS", production |-> "LRS"],
     standard |-> [dev |-> "LRS", staging |-> "GRS", production |-> "GRS"],
     premium |-> [dev |-> "LRS", staging |-> "ZRS", production |-> "ZRS"]]

TIER_TO_REPLICATION ==
    [basic |-> [dev |-> "LRS", staging |-> "LRS", production |-> "LRS"],
     standard |-> [dev |-> "LRS", staging |-> "GRS", production |-> "RAGRS"],
     premium |-> [dev |-> "LRS", staging |-> "ZRS", production |-> "ZRS"]]

ACCESS_TO_TERRAFORM ==
    [private |-> "private", blob |-> "blob", container |-> "container"]

MaxStorageNameLen == 24

\* a generator that cuts the name two characters early
StorageGenerateNameCutEarly(project, environment) ==
    LET clean_project == RemoveNonAlnum(Lower(project))
        clean_env == RemoveNonAlnum(Lower(environment))
        name == <<"s","t">> \o clean_project \o clean_env
    IN  Take(name, MaxStorageNameLen - 2)

\* a generator that uses the database's character class and keeps hyphens
StorageGenerateNameKeepHyphen(project, environment) ==
    LET clean_project == SubInvalidWithHyphen(Lower(project))
        clean_env == SubInvalidWithHyphen(Lower(environment))
        name == <<"s","t">> \o clean_project \o clean_env
    IN  Take(name, MaxStorageNameLen)

\* StorageTransformer._generate_name
StorageGenerateName(project, environment) ==
    LET clean_project == RemoveNonAlnum(Lower(project))
        clean_env == RemoveNonAlnum(Lower(environment))
        name == <<"s","t">> \o clean_project \o clean_env
    IN  Take(name, MaxStorageNameLen)

\* StorageContainerTfVars(name=c.name, container_access_type=...).model_dump()
StorageContainerTfVars(c) ==
    [name |-> c.name, container_access_type |-> ACCESS_TO_TERRAFORM[c.access]]

\* a container list built back to front
TransformContainersReversed(containers) ==
    [i \in 1..Len(containers) |->
        StorageContainerTfVars(containers[Len(containers) + 1 - i])]

\* the list comprehension over storage.containers
TransformContainers(containers) ==
    [i \in 1..Len(containers) |-> StorageContainerTfVars(containers[i])]

\* StorageTransformer.transform
StorageTransform(ctx) ==
    IF ~IsSome(ctx.config.storage) THEN None
    ELSE LET storage == ctx.config.storage.value
         IN  Some(
               [name |-> StorageGenerateName(ctx.config.project,
                                             EnvValue(ctx.config.environment)),
                resource_group_name |-> resource_group_name(ctx),
                location |-> ctx.config.region,
                account_tier |-> TIER_TO_ACCOUNT_TIER[storage.tier],
                account_replication_type |->
                    TIER_TO_REPLICATION[storage.tier][ctx.config.environment],
                account_kind |->
                    IF storage.tier = "premium" THEN "BlockBlobStorage" ELSE "StorageV2",
                access_tier |-> "Hot",
                enable_https_traffic_only |-> TRUE,
                min_tls_version |-> "TLS1_2",
                containers |-> TransformContainers(storage.containers),
                tags |-> get_tags(ctx)])

StMsgProductionTier ==
    <<"Production environment recommends 'standard' tier or higher for storage">>
StMsgPremiumRole ==
    <<"Premium storage tier requires 'team_lead' or 'platform_admin' role">>
StMsgPublicContainer(name) ==
    <<"Public container '", name,
      "' in production requires 'team_lead' or 'platform_admin' role">>

\* a container check that lets only platform_admin publish
ContainerOffendsBelowAdmin(ctx, c) ==
    c.access # "private" /\ ctx.role # "platform_admin"

\* a container check that forgets the role
ContainerOffendsAnyRole(ctx, c) == c.access # "private"

\* the condition of the `if` inside the container loop
ContainerOffends(ctx, c) == c.access # "private" /\ ctx.role = "developer"

\* the `for container in storage.containers` loop: errors after the first n containers
RECURSIVE ContainerErrors(_, _, _, _)
ContainerErrors(ctx, containers, n, errors) ==
    IF n = 0 THEN errors
    ELSE AppendIf(ContainerOffends(ctx, containers[n]),
                  ContainerErrors(ctx, containers, n - 1, errors),
                  StMsgPublicContainer(containers[n].name))

\* StorageTransformer.validate_policies
StorageValidatePolicies(ctx) ==
    IF ~IsSome(ctx.config.storage) THEN <<>>
    ELSE LET storage == ctx.config.storage.value
             e1 == AppendIf(is_production(ctx) /\ storage.tier = "basic",
                            <<>>, StMsgProductionTier)
             e2 == AppendIf(storage.tier = "premium" /\ ctx.role = "developer",
                            e1, StMsgPremiumRole)
             e3 == IF is_production(ctx)
                   THEN ContainerErrors(ctx, storage.containers,
                                        Len(storage.containers), e2)
                   ELSE e2
         IN  e3

(***************************************************************************)
(* cli.py: the `transform` command.                                        *)
(***************************************************************************)
\* the `transformers` dict, in insertion order
TransformerNames == <<"postgresql", "storage">>

ValidatePoliciesOf(name, ctx) ==
    IF name = "postgresql" THEN DatabaseValidatePolicies(ctx)
    ELSE StorageValidatePolicies(ctx)

TransformOf(name, ctx) ==
    IF name = "postgresql" THEN DatabaseTransform(ctx) ELSE StorageTransform(ctx)

\* f"{name}.tfvars.json"
OutputFile(name) == name \o ".tfvars.json"

\* load_config: the file is there, parses as YAML and model_validate accepts it
LoadSucceeds(inp) == inp.kind = "document" /\ ValidConfig(inp.doc)

\* exit status when load_config fails: typer.Exit(1) for ValidationError and
\* YAMLError, the usage-error status for BadParameter
LoadFailureExit(inp) == IF inp.kind = "missing" THEN 2 ELSE 1

Ctx == TransformContext(config.value, role)

\* a gate that tolerates a single violation
HasErrorsMoreThanOne(errors) == Len(errors) > 1

\* `if all_errors:`
HasErrors(errors) == errors # <<>>

\* config = load_config(config_path), with its except clauses
LoadConfig ==
    /\ pc = "load"
    /\ IF LoadSucceeds(input)
       THEN /\ config' = Some(input.doc)
            /\ pc' = "validate"
            /\ UNCHANGED exit_code
       ELSE /\ exit_code' = Some(LoadFailureExit(input))
            /\ pc' = "exit"
            /\ UNCHANGED config
    /\ UNCHANGED <<input, role, all_errors, validated, transformed,
                   output_dir_created, files, generated_files, last>>

\* a validation loop that assigns all_errors instead of extending it
ValidatePoliciesOverwrite ==
    /\ pc = "validate"
    /\ LET name == TransformerNames[Len(validated) + 1]
       IN  /\ all_errors' = ValidatePoliciesOf(name, Ctx)
           /\ validated' = Append(validated, name)
    /\ pc' = IF Len(validated') = Len(TransformerNames) THEN "check" ELSE "validate"
    /\ UNCHANGED <<input, config, role, transformed, output_dir_created, files,
                   generated_files, exit_code, last>>

\* one iteration of `for transformer in transformers.values()`
ValidatePolicies ==
    /\ pc = "validate"
    /\ LET name == TransformerNames[Len(validated) + 1]
       IN  /\ all_errors' = all_errors \o ValidatePoliciesOf(name, Ctx)
           /\ validated' = Append(validated, name)
    /\ pc' = IF Len(validated') = Len(TransformerNames) THEN "check" ELSE "validate"
    /\ UNCHANGED <<input, config, role, transformed, output_dir_created, files,
                   generated_files, exit_code, last>>

\* a gate that reports the violations and carries on
CheckErrorsNoExit ==
    /\ pc = "check"
    /\ pc' = "mkdir"
    /\ UNCHANGED <<input, config, role, all_errors, validated, transformed,
                   output_dir_created, files, generated_files, exit_code, last>>

\* `if all_errors: ... raise typer.Exit(1)`
CheckErrors ==
    /\ pc = "check"
    /\ IF HasErrors(all_errors)
       THEN /\ exit_code' = Some(1)
            /\ pc' = "exit"
       ELSE /\ pc' = "mkdir"
            /\ UNCHANGED exit_code
    /\ UNCHANGED <<input, config, role, all_errors, validated, transformed,
                   output_dir_created, files, generated_files, last>>

\* output_dir.mkdir(parents=True, exist_ok=True)
MakeOutputDir ==
    /\ pc = "mkdir"
    /\ output_dir_created' = TRUE
    /\ pc' = "transform"
    /\ UNCHANGED <<input, config, role, all_errors, validated, transformed,
                   files, generated_files, exit_code, last>>

\* one iteration of `for name, transformer in transformers.items()`
TransformAndWrite ==
    /\ pc = "transform"
    /\ LET name == TransformerNames[Len(transformed) + 1]
           result == TransformOf(name, Ctx)
       IN  /\ transformed' = Append(transformed, name)
           /\ CASE result.kind = "Raised" ->
                     /\ exit_code' = Some(1)
                     /\ pc' = "exit"
                     /\ UNCHANGED <<files, generated_files>>
                [] result.kind = "Some" ->
                     /\ files' = [f \in DOMAIN files \cup {OutputFile(name)} |->
                                    IF f = OutputFile(name) THEN result.value
                                    ELSE files[f]]
                     /\ generated_files' = Append(generated_files, OutputFile(name))
                     /\ pc' = IF Len(transformed') = Len(TransformerNames)
                              THEN "report" ELSE "transform"
                     /\ UNCHANGED exit_code
                [] result.kind = "None" ->
                     /\ pc' = IF Len(transformed') = Len(TransformerNames)
                              THEN "report" ELSE "transform"
                     /\ UNCHANGED <<files, generated_files, exit_code>>
    /\ UNCHANGED <<input, config, role, all_errors, validated, output_dir_created, last>>

\* a report that treats "nothing to transform" as a failure
ReportNothingIsFailure ==
    /\ pc = "report"
    /\ IF generated_files = <<>>
       THEN exit_code' = Some(1)
       ELSE exit_code' = Some(0)
    /\ pc' = "exit"
    /\ UNCHANGED <<input, config, role, all_errors, validated, transformed,
                   output_dir_created, files, generated_files, last>>

\* `if not generated_files: raise typer.Exit(0)`, else the table and a normal return
Report ==
    /\ pc = "report"
    /\ IF generated_files = <<>>
       THEN exit_code' = Some(0)
       ELSE exit_code' = Some(0)
    /\ pc' = "exit"
    /\ UNCHANGED <<input, config, role, all_errors, validated, transformed,
                   output_dir_created, files, generated_files, last>>

(***************************************************************************)
(* Operations called on a Context directly (as the tests do).              *)
(***************************************************************************)
Call(op, result) ==
    /\ pc = "ctx"
    /\ last' = Some([op |-> op, result |-> result])
    /\ UNCHANGED <<input, config, role, pc, all_errors, validated, transformed,
                   output_dir_created, files, generated_files, exit_code>>

CallDatabaseTransform == Call("database.transform", DatabaseTransform(Ctx))
CallDatabaseValidatePolicies ==
    Call("database.validate_policies", DatabaseValidatePolicies(Ctx))
CallStorageTransform == Call("storage.transform", StorageTransform(Ctx))
CallStorageValidatePolicies ==
    Call("storage.validate_policies", StorageValidatePolicies(Ctx))
\* a get_tags that merges the standard tags into config.tags in place
CallGetTagsInPlace ==
    /\ pc = "ctx"
    /\ last' = Some([op |-> "get_tags", result |-> get_tags(Ctx)])
    /\ config' = Some([config.value EXCEPT !.tags = get_tags(Ctx)])
    /\ UNCHANGED <<input, role, pc, all_errors, validated, transformed,
                   output_dir_created, files, generated_files, exit_code>>

CallGetTags == Call("get_tags", get_tags(Ctx))

(***************************************************************************)
(* Inputs.                                                                 *)
(***************************************************************************)
MaxContainers == 2
MaxUserTags == 2
MaxShortLen == 2
MaxRawLen == 2
MinLongLen == 50
MaxLongLen == 64

Rep(c, n) == [i \in 1..n |-> c]

SeqsUpTo(S, n) == UNION {[1..k -> S] : k \in 0..n}

MyApp == <<"m","y","a","p","p">>
MyDashApp == <<"m","y","-","a","p","p">>

\* the field defaults of DatabaseConfig
DefaultDatabase ==
    [tier |-> "standard", storage_gb |-> 64, version |-> "16",
     high_availability |-> FALSE, backup_retention_days |-> 7]

\* the field defaults of StorageConfig
DefaultStorage == [tier |-> "standard", containers |-> <<>>]

EmptyTags == [k \in {} |-> <<>>]

\* InfraConfig(project=..., environment=..., ...), region at its default
InfraConfig(project, environment, database, storage, owner, cost_center, tags) ==
    [project |-> project, environment |-> environment, region |-> "eastus",
     database |-> database, storage |-> storage,
     owner |-> owner, cost_center |-> cost_center, tags |-> tags]

Opt(S) == {None} \cup {Some(v) : v \in S}

Databases ==
    {[DefaultDatabase EXCEPT !.tier = t, !.high_availability = h,
                             !.backup_retention_days = b] :
        t \in DatabaseTier, h \in BOOLEAN,
        b \in MinBackupRetention..MaxBackupRetention}

ContainerNames == {"logs", "public-assets"}
Containers == [name : ContainerNames, access : ContainerAccess]
Storages == [tier : StorageTier, containers : SeqsUpTo(Containers, MaxContainers)]

\* a few database / storage settings to stand beside the kind under study
SomeDatabases ==
    {None, Some(DefaultDatabase),
     Some([DefaultDatabase EXCEPT !.tier = "starter", !.high_availability = TRUE]),
     Some([DefaultDatabase EXCEPT !.tier = "enterprise",
                                  !.backup_retention_days = 14])}
SomeStorages ==
    {None, Some(DefaultStorage),
     Some([tier |-> "basic", containers |-> <<>>]),
     Some([tier |-> "premium",
           containers |-> <<[name |-> "logs", access |-> "blob"]>>])}

\* Configurations for the policy evaluators and the transformers
PolicyConfigs ==
    {InfraConfig(MyApp, e, Some(db), st, None, None, EmptyTags) :
        e \in Environment, db \in Databases, st \in SomeStorages}
    \cup
    {InfraConfig(MyApp, e, db, Some(st), None, None, EmptyTags) :
        e \in Environment, db \in SomeDatabases, st \in Storages}

\* Configurations for the tags
TagKeys == {"project", "environment", "managed_by", "owner", "cost_center", "team"}
TagValues == {<<"u">>, <<"v","2">>}
OwnerValues == {None, Some(<<>>), Some(<<"o","p","s">>)}
UserTags ==
    UNION {[K -> TagValues] : K \in {S \in SUBSET TagKeys : Cardinality(S) <= MaxUserTags}}
TagConfigs ==
    {InfraConfig(MyApp, e, Some(DefaultDatabase), Some(DefaultStorage), o, c, t) :
        e \in {"dev", "production"}, o \in OwnerValues, c \in OwnerValues, t \in UserTags}

\* valid projects: every short one, and short ones padded up to the full length
ProjectAlphabet == {"a", "z", "7", "-"}
ShortProjects == {p \in SeqsUpTo(ProjectAlphabet, MaxShortLen) : ValidProject(p)}
ValidProjects ==
    {q \in {p \o Rep(c, n) : p \in ShortProjects, c \in {"b", "0", "-"},
                             n \in 0..MaxProjectLen} : ValidProject(q)}
NameConfigs ==
    {InfraConfig(p, e, Some(DefaultDatabase), Some(DefaultStorage),
                 None, None, EmptyTags) :
        p \in ValidProjects, e \in Environment}

\* arbitrary strings, validated or not
RawAlphabet == {"a", "Z", "7", "-", "_", " "}
RawStrings ==
    SeqsUpTo(RawAlphabet, MaxRawLen)
    \cup {Rep(c, n) : c \in RawAlphabet, n \in MinLongLen..MaxLongLen}
RawEnvironments ==
    {EnvValue(e) : e \in Environment}
    \cup SeqsUpTo(RawAlphabet, 1)
    \cup {Rep("_", MaxLongLen)}

\* documents the command may find at config_path
CliDatabases ==
    {[DefaultDatabase EXCEPT !.tier = t, !.high_availability = h,
                             !.backup_retention_days = b] :
        t \in DatabaseTier, h \in BOOLEAN, b \in {7, 14}}
CliStorages ==
    [tier : StorageTier,
     containers : {<<>>,
                   <<[name |-> "logs", access |-> "private"]>>,
                   <<[name |-> "logs", access |-> "blob"]>>,
                   <<[name |-> "logs", access |-> "private"],
                     [name |-> "public-assets", access |-> "container"]>>}]
CliDocuments ==
    {InfraConfig(MyDashApp, e, db, st, None, None, EmptyTags) :
        e \in Environment, db \in Opt(CliDatabases), st \in Opt(CliStorages)}
    \cup
    {InfraConfig(p, "dev", Some(db), None, None, None, EmptyTags) :
        p \in {<<>>, <<"7","a">>, <<"M","y">>, Rep("a", MaxProjectLen + 1)},
        db \in {DefaultDatabase}}
    \cup
    {InfraConfig(MyApp, "dev", Some(db), None, None, None, EmptyTags) :
        db \in {[DefaultDatabase EXCEPT !.backup_retention_days = 6],
                [DefaultDatabase EXCEPT !.backup_retention_days = 36],
                [DefaultDatabase EXCEPT !.storage_gb = 31],
                [DefaultDatabase EXCEPT !.tier = "ultra"]}}
CliInputs ==
    {[kind |-> "document", doc |-> d] : d \in CliDocuments}
    \cup {[kind |-> "missing"], [kind |-> "yaml_error"]}

(***************************************************************************)
(* Specifications.                                                         *)
(***************************************************************************)
Idle ==
    /\ all_errors = <<>>
    /\ validated = <<>>
    /\ transformed = <<>>
    /\ output_dir_created = FALSE
    /\ files = [f \in {} |-> None]
    /\ generated_files = <<>>
    /\ exit_code = None
    /\ last = None

\* a run of the `transform` command
Init ==
    /\ input \in CliInputs
    /\ config = None
    /\ role \in UserRole
    /\ pc = "load"
    /\ Idle

Next ==
    \/ LoadConfig
    \/ ValidatePolicies
    \/ CheckErrors
    \/ MakeOutputDir
    \/ TransformAndWrite
    \/ Report

Spec == Init /\ [][Next]_vars

\* a Context over a given Configuration, its operations called in any order
InitContext(configs) ==
    /\ input = [kind |-> "none"]
    /\ config \in {Some(c) : c \in configs}
    /\ role \in UserRole
    /\ pc = "ctx"
    /\ Idle

NextCore ==
    \/ CallDatabaseTransform
    \/ CallDatabaseValidatePolicies
    \/ CallStorageTransform
    \/ CallStorageValidatePolicies
    \/ CallGetTags

InitPolicy == InitContext(PolicyConfigs)
SpecPolicy == InitPolicy /\ [][NextCore]_vars

InitTags == InitContext(TagConfigs)
SpecTags == InitTags /\ [][NextCore]_vars

InitValidNames == InitContext(NameConfigs)
SpecValidNames == InitValidNames /\ [][NextCore]_vars

\* a Context over a database of every permitted storage_gb
StorageGbConfigs ==
    {InfraConfig(MyApp, "dev",
                 Some([DefaultDatabase EXCEPT !.storage_gb = g]),
                 None, None, None, EmptyTags) :
        g \in MinStorageGb..MaxStorageGb}

InitStorageGb ==
    /\ input = [kind |-> "none"]
    /\ config \in {Some(c) : c \in StorageGbConfigs}
    /\ role = "developer"
    /\ pc = "ctx"
    /\ Idle

SpecStorageGb == InitStorageGb /\ [][NextCore]_vars

\* the name generators called on arbitrary strings (input holds the arguments)
CallDatabaseGenerateName ==
    /\ pc = "names"
    /\ last' = Some([op |-> "database._generate_name",
                     result |-> DatabaseGenerateName(input.project, input.environment)])
    /\ UNCHANGED <<input, config, role, pc, all_errors, validated, transformed,
                   output_dir_created, files, generated_files, exit_code>>

CallStorageGenerateName ==
    /\ pc = "names"
    /\ last' = Some([op |-> "storage._generate_name",
                     result |-> StorageGenerateName(input.project, input.environment)])
    /\ UNCHANGED <<input, config, role, pc, all_errors, validated, transformed,
                   output_dir_created, files, generated_files, exit_code>>

InitNames ==
    /\ input \in [kind : {"strings"}, project : RawStrings, environment : RawEnvironments]
    /\ config = None
    /\ role = "developer"
    /\ pc = "names"
    /\ Idle

NextNames == CallDatabaseGenerateName \/ CallStorageGenerateName

SpecNames == InitNames /\ [][NextNames]_vars

(***************************************************************************)
(* Properties.                                                             *)
(***************************************************************************)
\* number of positions of sequence r that satisfy P
Count(r, P(_)) == Cardinality({i \in 1..Len(r) : P(r[i])})

\* number of true conditions among a sequence of booleans
CountTrue(bs) == Cardinality({i \in 1..Len(bs) : bs[i]})

LastIs(op) == IsSome(last) /\ last.value.op = op
Result == last.value.result

Cfg == config.value

\* some resource kind's policy evaluator reports a violation for the loaded config
AnyViolation ==
    \E i \in 1..Len(TransformerNames) :
        ValidatePoliciesOf(TransformerNames[i], Ctx) # <<>>

\* the command has begun to produce output
OutputStarted ==
    \/ transformed # <<>>
    \/ output_dir_created
    \/ DOMAIN files # {}
    \/ generated_files # <<>>

\* C1: in a run of `transform`, output (a transformer call, the output
\* directory, a file) begins only after the evaluators of all kinds have run
\* and found nothing; a violation for any kind means no output at all.
C1_PolicyGate ==
    /\ OutputStarted =>
          /\ validated = TransformerNames
          /\ all_errors = <<>>
          /\ ~AnyViolation
    /\ (IsSome(config) /\ AnyViolation) => ~OutputStarted
    /\ (pc = "exit" /\ IsSome(config) /\ AnyViolation) =>
          /\ validated = TransformerNames
          /\ all_errors # <<>>

\* C1 witness: the database passes its policies, storage violates its own, and
\* the run has ended without output
C1_Witness ==
    /\ pc = "exit"
    /\ IsSome(config)
    /\ IsSome(Cfg.database)
    /\ DatabaseValidatePolicies(Ctx) = <<>>
    /\ StorageValidatePolicies(Ctx) # <<>>
    /\ validated = TransformerNames
    /\ ~OutputStarted

\* the output file names of the configured kinds
ConfiguredFiles ==
    (IF IsSome(Cfg.database) THEN {"postgresql.tfvars.json"} ELSE {})
    \cup (IF IsSome(Cfg.storage) THEN {"storage.tfvars.json"} ELSE {})

\* the input does not yield a Configuration
InputFails == input.kind # "document" \/ ~ValidConfig(input.doc)

\* C2: `transform` ends nonzero iff the input fails validation or a policy
\* violation exists; otherwise it ends zero with exactly one file per
\* configured kind, none for an unconfigured kind, and none at all (still
\* zero) when nothing is configured.
C2_ExitStatus ==
    pc = "exit" =>
        /\ IsSome(exit_code)
        /\ (exit_code.value # 0) <=> (InputFails \/ (IsSome(config) /\ AnyViolation))
        /\ exit_code.value = 0 =>
              /\ DOMAIN files = ConfiguredFiles
              /\ Len(generated_files) = Cardinality(ConfiguredFiles)
              /\ \A i \in 1..Len(generated_files) : generated_files[i] \in ConfiguredFiles
        /\ exit_code.value # 0 => DOMAIN files = {}

\* C2 witness: a run that ended zero with the database file and no storage file
C2_Witness ==
    /\ pc = "exit"
    /\ exit_code = Some(0)
    /\ IsSome(Cfg.database)
    /\ ~IsSome(Cfg.storage)
    /\ DOMAIN files = {"postgresql.tfvars.json"}

\* C3: with a resource kind unset, its transform returns None and its
\* validate_policies returns the empty list, whatever the other fields are.
C3_AbsencePropagation ==
    /\ (LastIs("database.transform") /\ ~IsSome(Cfg.database)) => Result = None
    /\ (LastIs("database.validate_policies") /\ ~IsSome(Cfg.database)) => Result = <<>>
    /\ (LastIs("storage.transform") /\ ~IsSome(Cfg.storage)) => Result = None
    /\ (LastIs("storage.validate_policies") /\ ~IsSome(Cfg.storage)) => Result = <<>>

\* C3 witness: transform called with the database unset while the configured
\* storage violates its policies
C3_Witness ==
    /\ LastIs("database.transform")
    /\ ~IsSome(Cfg.database)
    /\ IsSome(Cfg.storage)
    /\ StorageValidatePolicies(Ctx) # <<>>

\* the conditions of the four database rules, in the order of the claim
DbRuleConditions ==
    LET db == Cfg.database.value
        production == Cfg.environment = "production"
    IN  <<production /\ db.tier = "starter",
          db.tier = "enterprise" /\ role = "developer",
          db.high_availability /\ db.tier = "starter",
          production /\ db.backup_retention_days < 14>>

DbRuleMessages ==
    <<DbMsgProductionTier, DbMsgEnterpriseRole, DbMsgHaTier, DbMsgBackupRetention>>

\* C4: database validate_policies reports exactly one message for each of the
\* four rules whose condition holds and none for a rule whose condition does
\* not hold; the list is empty iff no condition holds.
C4_DatabaseRulesIndependent ==
    (LastIs("database.validate_policies") /\ IsSome(Cfg.database)) =>
        /\ \A k \in 1..4 :
              Count(Result, LAMBDA m : m = DbRuleMessages[k])
                  = IF DbRuleConditions[k] THEN 1 ELSE 0
        /\ Len(Result) = CountTrue(DbRuleConditions)
        /\ (Result = <<>>) <=> (\A k \in 1..4 : ~DbRuleConditions[k])

\* C4 witness: three rules violated at once
C4_Witness ==
    /\ LastIs("database.validate_policies")
    /\ IsSome(Cfg.database)
    /\ Len(Result) = 3

\* a per-container message naming container n
IsPublicContainerMessage(m, n) == Len(m) = 3 /\ m[2] = n

\* the positions of the configured containers named n whose access is not private
PublicPositions(n) ==
    LET cs == Cfg.storage.value.containers
    IN  {i \in 1..Len(cs) : cs[i].name = n /\ cs[i].access # "private"}

\* C5: storage validate_policies reports one message for production with the
\* basic tier, one for the premium tier as developer, and, in production as
\* developer, one message per non-private container position, naming the
\* container; no per-container message otherwise; and nothing else.
C5_StorageRules ==
    (LastIs("storage.validate_policies") /\ IsSome(Cfg.storage)) =>
        LET st == Cfg.storage.value
            production == Cfg.environment = "production"
            basic == production /\ st.tier = "basic"
            premium == st.tier = "premium" /\ role = "developer"
            perContainer == production /\ role = "developer"
            names == {st.containers[i].name : i \in 1..Len(st.containers)}
            public == {i \in 1..Len(st.containers) :
                          st.containers[i].access # "private"}
        IN  /\ Count(Result, LAMBDA m : m = StMsgProductionTier)
                  = IF basic THEN 1 ELSE 0
            /\ Count(Result, LAMBDA m : m = StMsgPremiumRole)
                  = IF premium THEN 1 ELSE 0
            /\ \A n \in ContainerNames :
                  Count(Result, LAMBDA m : IsPublicContainerMessage(m, n))
                      = IF perContainer THEN Cardinality(PublicPositions(n)) ELSE 0
            /\ Len(Result) = CountTrue(<<basic, premium>>)
                             + (IF perContainer THEN Cardinality(public) ELSE 0)

\* C5 witness: two non-private containers of the same name give two messages
C5_Witness ==
    /\ LastIs("storage.validate_policies")
    /\ IsSome(Cfg.storage)
    /\ \E n \in ContainerNames :
          /\ Cardinality(PublicPositions(n)) = 2
          /\ Count(Result, LAMBDA m : IsPublicContainerMessage(m, n)) = 2

StandardKeys == {"project", "environment", "managed_by"}

\* C6: get_tags always has the keys project, environment and managed_by; every
\* user tag is present with its user value, whether or not its key is a
\* standard key (user tags are applied last).
C6_TagMergeLaw ==
    LastIs("get_tags") =>
        /\ StandardKeys \subseteq DOMAIN Result
        /\ \A k \in DOMAIN Cfg.tags \ (StandardKeys \cup {"owner", "cost_center"}) :
              Result[k] = Cfg.tags[k]
        /\ \A k \in DOMAIN Cfg.tags \cap (StandardKeys \cup {"owner", "cost_center"}) :
              Result[k] = Cfg.tags[k]

\* C6 witness: a user tag named project, whose value differs from the project,
\* has replaced the computed project tag
C6_Witness ==
    /\ LastIs("get_tags")
    /\ "project" \in DOMAIN Cfg.tags
    /\ Cfg.tags["project"] # Cfg.project
    /\ Result["project"] = Cfg.tags["project"]

\* the value the Configuration alone gives a standard key
StandardValue(k) ==
    CASE k = "project" -> Cfg.project
      [] k = "environment" -> EnvValue(Cfg.environment)
      [] k = "managed_by" -> ManagedBy
      [] k = "owner" -> Cfg.owner.value
      [] k = "cost_center" -> Cfg.cost_center.value

\* the standard keys of the Configuration: the three fixed ones, and owner /
\* cost_center when set
SetStandardKeys ==
    StandardKeys
    \cup (IF IsSome(Cfg.owner) THEN {"owner"} ELSE {})
    \cup (IF IsSome(Cfg.cost_center) THEN {"cost_center"} ELSE {})

\* C7 as stated: user tags never override a standard tag, so the value
\* get_tags gives for a standard key is the one computed from the Configuration.
C7_UserTagsNeverOverride ==
    LastIs("get_tags") =>
        \A k \in SetStandardKeys \cap DOMAIN Result : Result[k] = StandardValue(k)

\* C7 amended: the value get_tags gives for a standard key is the one computed
\* from the Configuration unless the user tags use that key, and then it is
\* the user's value; project, environment and managed_by are always given one.
C7_StandardUnlessUserKey ==
    LastIs("get_tags") =>
        /\ StandardKeys \subseteq DOMAIN Result
        /\ \A k \in SetStandardKeys \cap DOMAIN Result :
              Result[k] = IF k \in DOMAIN Cfg.tags THEN Cfg.tags[k]
                          ELSE StandardValue(k)

\* C7 witness: owner and cost_center are set to different values, the user
\* tags collide with one standard key and leave the others alone
C7_Witness ==
    /\ LastIs("get_tags")
    /\ IsSome(Cfg.owner) /\ IsSome(Cfg.cost_center)
    /\ Cfg.owner.value # <<>>
    /\ Cfg.owner.value # Cfg.cost_center.value
    /\ "environment" \in DOMAIN Cfg.tags
    /\ "owner" \notin DOMAIN Cfg.tags
    /\ Result["environment"] = Cfg.tags["environment"]
    /\ Result["owner"] = Cfg.owner.value

\* C8: with no user tag of that key, owner (cost_center) set to any string
\* gives the tag owner (cost_center) with exactly that value, and an unset
\* field gives no such tag.
C8_OwnerCostCenterTags ==
    LastIs("get_tags") =>
        /\ "owner" \notin DOMAIN Cfg.tags =>
              IF IsSome(Cfg.owner)
              THEN "owner" \in DOMAIN Result /\ Result["owner"] = Cfg.owner.value
              ELSE "owner" \notin DOMAIN Result
        /\ "cost_center" \notin DOMAIN Cfg.tags =>
              IF IsSome(Cfg.cost_center)
              THEN /\ "cost_center" \in DOMAIN Result
                   /\ Result["cost_center"] = Cfg.cost_center.value
              ELSE "cost_center" \notin DOMAIN Result

\* C9: the database name generator returns, for any project and environment
\* strings, a name over [a-z0-9-] that starts with a letter and has between 3
\* and 63 characters.
C9_DatabaseNameShape ==
    LastIs("database._generate_name") =>
        /\ Len(Result) >= 3
        /\ Len(Result) <= 63
        /\ Result[1] \in LowerLetters
        /\ \A i \in 1..Len(Result) : Result[i] \in LowerLetters \cup Digits \cup {"-"}

\* C9 witness: an input with characters outside [a-z0-9-] that is long enough
\* to be truncated
C9_Witness ==
    /\ LastIs("database._generate_name")
    /\ Len(input.project) + Len(input.environment) + 6 > 63
    /\ \E i \in 1..Len(input.project) : input.project[i] \in {"_", " ", "Z"}
    /\ Len(Result) = 63

\* C10: for a valid Configuration with storage, the account name is the first
\* 24 characters of "st" + project without its non-[a-z0-9] characters +
\* environment; it has only lowercase letters and digits and 3 to 24 characters.
C10_StorageName ==
    (LastIs("storage.transform") /\ IsSome(Cfg.storage) /\ ValidConfig(Cfg)) =>
        LET name == Result.value.name
            full == <<"s","t">>
                    \o SelectSeq(Cfg.project, LAMBDA c : c \in LowerLetters \cup Digits)
                    \o EnvValue(Cfg.environment)
        IN  /\ Result.kind = "Some"
            /\ name = SubSeq(full, 1, IF Len(full) < 24 THEN Len(full) ELSE 24)
            /\ \A i \in 1..Len(name) : name[i] \in LowerLetters \cup Digits
            /\ Len(name) >= 3
            /\ Len(name) <= 24

\* C10 witness: a project with a hyphen whose full name exceeds 24 characters
C10_Witness ==
    /\ LastIs("storage.transform")
    /\ IsSome(Cfg.storage)
    /\ ValidConfig(Cfg)
    /\ \E i \in 1..Len(Cfg.project) : Cfg.project[i] = "-"
    /\ Len(RemoveNonAlnum(Cfg.project)) + Len(EnvValue(Cfg.environment)) + 2 > 24
    /\ Len(Result.value.name) = 24

\* "rg-{project}-{environment}" of the Configuration
ExpectedResourceGroup ==
    <<"r","g","-">> \o Cfg.project \o <<"-">> \o EnvValue(Cfg.environment)

\* C11: for a valid Configuration with a database the emitted name is exactly
\* "psql-{project}-{environment}" and resource_group_name is exactly
\* "rg-{project}-{environment}"; the storage document carries the same
\* resource_group_name.
C11_DatabaseNameExact ==
    /\ (LastIs("database.transform") /\ IsSome(Cfg.database) /\ ValidConfig(Cfg)) =>
          /\ Result.kind = "Some"
          /\ Result.value.name
                = <<"p","s","q","l","-">> \o Cfg.project \o <<"-">>
                  \o EnvValue(Cfg.environment)
          /\ Result.value.resource_group_name = ExpectedResourceGroup
    /\ (LastIs("storage.transform") /\ IsSome(Cfg.storage) /\ ValidConfig(Cfg)) =>
          /\ Result.kind = "Some"
          /\ Result.value.resource_group_name = ExpectedResourceGroup

\* C11 witness: the longest valid project, with a hyphen, in production
C11_Witness ==
    /\ LastIs("database.transform")
    /\ IsSome(Cfg.database)
    /\ ValidConfig(Cfg)
    /\ Len(Cfg.project) = 20
    /\ \E i \in 1..Len(Cfg.project) : Cfg.project[i] = "-"
    /\ Cfg.environment = "production"
    /\ Len(Result.value.name) = 36

\* the SKU the fixed table gives a tier
ExpectedSku(tier) ==
    CASE tier = "starter" -> "B_Standard_B1ms"
      [] tier = "standard" -> "GP_Standard_D2s_v3"
      [] tier = "premium" -> "GP_Standard_D4s_v3"
      [] tier = "enterprise" -> "MO_Standard_E4s_v3"

\* C12: for each of the four database tiers sku_name is defined and equals the
\* fixed table value, whatever the environment, the role and the other fields.
C12_TierToSku ==
    (LastIs("database.transform") /\ IsSome(Cfg.database)) =>
        /\ Cfg.database.value.tier \in DOMAIN TIER_TO_SKU
        /\ Result.kind = "Some"
        /\ Result.value.sku_name = ExpectedSku(Cfg.database.value.tier)

\* C12 witness: the premium tier, transformed for a developer in production
\* with too short a retention
C12_Witness ==
    /\ LastIs("database.transform")
    /\ IsSome(Cfg.database)
    /\ Cfg.database.value.tier = "premium"
    /\ Cfg.environment = "production"
    /\ Cfg.database.value.backup_retention_days < 14
    /\ role = "developer"
    /\ Result.value.sku_name = "GP_Standard_D4s_v3"

\* C13: for storage_gb in [32, 16384] storage_mb is storage_gb * 1024 exactly:
\* it lies in [32768, 16777216] and is divisible by 1024.
C13_StorageMb ==
    (LastIs("database.transform") /\ IsSome(Cfg.database)
        /\ Cfg.database.value.storage_gb >= 32
        /\ Cfg.database.value.storage_gb <= 16384) =>
        LET mb == Result.value.storage_mb
        IN  /\ Result.kind = "Some"
            /\ mb = Cfg.database.value.storage_gb * 1024
            /\ mb >= 32768
            /\ mb <= 16777216
            /\ mb % 1024 = 0
            /\ mb \div 1024 = Cfg.database.value.storage_gb

\* C13 witness: the largest permitted storage_gb
C13_Witness ==
    /\ LastIs("database.transform")
    /\ IsSome(Cfg.database)
    /\ Cfg.database.value.storage_gb = 16384
    /\ Result.value.storage_mb = 16777216

\* C14: geo_redundant_backup_enabled is true iff the environment is production
\* and the tier is not starter; it is false in dev and staging.
C14_GeoRedundant ==
    (LastIs("database.transform") /\ IsSome(Cfg.database)) =>
        /\ Result.kind = "Some"
        /\ Result.value.geo_redundant_backup_enabled
              <=> (Cfg.environment = "production"
                   /\ Cfg.database.value.tier # "starter")
        /\ Cfg.environment \in {"dev", "staging"} =>
              ~Result.value.geo_redundant_backup_enabled

\* C14 witness: a production database of the starter tier, without geo backup
C14_Witness ==
    /\ LastIs("database.transform")
    /\ IsSome(Cfg.database)
    /\ Cfg.environment = "production"
    /\ Cfg.database.value.tier = "starter"
    /\ ~Result.value.geo_redundant_backup_enabled

\* C15: with high_availability the mode is ZoneRedundant and zone is "1";
\* without it the mode is Disabled and zone is absent; so zone is set iff the
\* mode is ZoneRedundant.
C15_HighAvailability ==
    (LastIs("database.transform") /\ IsSome(Cfg.database)) =>
        LET doc == Result.value
        IN  /\ Result.kind = "Some"
            /\ Cfg.database.value.high_availability =>
                  /\ doc.high_availability_mode = "ZoneRedundant"
                  /\ doc.zone.kind = "Some"
                  /\ doc.zone.value = "1"
            /\ ~Cfg.database.value.high_availability =>
                  /\ doc.high_availability_mode = "Disabled"
                  /\ doc.zone.kind = "None"
            /\ (doc.zone.kind = "Some") <=> (doc.high_availability_mode = "ZoneRedundant")

\* C15 witness: a database without high availability, zone absent
C15_Witness ==
    /\ LastIs("database.transform")
    /\ IsSome(Cfg.database)
    /\ ~Cfg.database.value.high_availability
    /\ Result.value.high_availability_mode = "Disabled"
    /\ Result.value.zone.kind = "None"

\* the replication type the fixed tables give a tier in an environment
ExpectedReplication(tier, env) ==
    CASE tier = "basic" -> "LRS"
      [] tier = "standard" ->
            (CASE env = "dev" -> "LRS"
               [] env = "staging" -> "GRS"
               [] env = "production" -> "RAGRS")
      [] tier = "premium" ->
            (CASE env = "dev" -> "LRS"
               [] env = "staging" -> "ZRS"
               [] env = "production" -> "ZRS")

\* C16: account_replication_type, account_tier and account_kind equal the
\* fixed tables for every storage tier and environment, whatever the role
\* and the containers.
C16_StorageTables ==
    (LastIs("storage.transform") /\ IsSome(Cfg.storage)) =>
        LET doc == Result.value
            tier == Cfg.storage.value.tier
        IN  /\ Result.kind = "Some"
            /\ doc.account_replication_type = ExpectedReplication(tier, Cfg.environment)
            /\ doc.account_tier = (IF tier = "premium" THEN "Premium" ELSE "Standard")
            /\ doc.account_kind = (IF tier = "premium" THEN "BlockBlobStorage"
                                   ELSE "StorageV2")

\* C16 witness: the standard tier in production, as team_lead, with containers
C16_Witness ==
    /\ LastIs("storage.transform")
    /\ IsSome(Cfg.storage)
    /\ Cfg.storage.value.tier = "standard"
    /\ Cfg.environment = "production"
    /\ role = "team_lead"
    /\ Cfg.storage.value.containers # <<>>
    /\ Result.value.account_replication_type = "RAGRS"

\* C17: the emitted containers have the length of the configured sequence and,
\* index by index, the configured name and the literal string of the access.
C17_ContainersOneToOne ==
    (LastIs("storage.transform") /\ IsSome(Cfg.storage)) =>
        LET cs == Cfg.storage.value.containers
            out == Result.value.containers
        IN  /\ Result.kind = "Some"
            /\ Len(out) = Len(cs)
            /\ \A i \in 1..Len(cs) :
                  /\ out[i].name = cs[i].name
                  /\ out[i].container_access_type = cs[i].access
                  /\ out[i].container_access_type \in {"private", "blob", "container"}

\* C17 witness: two containers that differ in name and access, kept in order
C17_Witness ==
    /\ LastIs("storage.transform")
    /\ IsSome(Cfg.storage)
    /\ Len(Cfg.storage.value.containers) = 2
    /\ Cfg.storage.value.containers[1].name # Cfg.storage.value.containers[2].name
    /\ Cfg.storage.value.containers[1].access # Cfg.storage.value.containers[2].access
    /\ Result.value.containers[1].name = Cfg.storage.value.containers[1].name
    /\ Result.value.containers[2].name = Cfg.storage.value.containers[2].name

\* the result of an operation called alone on a Context
OpResult(op, ctx) ==
    CASE op = "database.transform" -> DatabaseTransform(ctx)
      [] op = "database.validate_policies" -> DatabaseValidatePolicies(ctx)
      [] op = "storage.transform" -> StorageTransform(ctx)
      [] op = "storage.validate_policies" -> StorageValidatePolicies(ctx)
      [] op = "get_tags" -> get_tags(ctx)

C19_TransformTotal ==
    /\ (LastIs("database.transform") /\ ValidConfig(Cfg)) =>
          /\ Result.kind # "Raised"
          /\ IsSome(Cfg.database) =>
                /\ Cfg.database.value.tier \in DOMAIN TIER_TO_SKU
                /\ Result.kind = "Some"
                /\ Result.value.backup_retention_days >= 7
                /\ Result.value.backup_retention_days <= 35
    /\ (LastIs("storage.transform") /\ ValidConfig(Cfg)) =>
          /\ Result.kind # "Raised"
          /\ IsSome(Cfg.storage) =>
                LET st == Cfg.storage.value
                IN  /\ st.tier \in DOMAIN TIER_TO_ACCOUNT_TIER
                    /\ st.tier \in DOMAIN TIER_TO_REPLICATION
                    /\ Cfg.environment \in DOMAIN TIER_TO_REPLICATION[st.tier]
                    /\ \A i \in 1..Len(st.containers) :
                          st.containers[i].access \in DOMAIN ACCESS_TO_TERRAFORM
                    /\ Result.kind = "Some"

\* C19 witness: a transform that completes on a Configuration the policy
\* evaluator rejects, at the lowest permitted retention
C19_Witness ==
    /\ LastIs("database.transform")
    /\ ValidConfig(Cfg)
    /\ IsSome(Cfg.database)
    /\ Cfg.database.value.backup_retention_days = 7
    /\ DatabaseValidatePolicies(Ctx) # <<>>
    /\ Result.kind = "Some"

\* C20: a postgresql document written by `transform` satisfies the policy
\* postconditions: in production the SKU is not the starter one, geo backup is
\* on and retention is at least 14 days; ZoneRedundant excludes the starter
\* SKU; a developer never gets the enterprise SKU.
C20_PostgresqlPostconditions ==
    "postgresql.tfvars.json" \in DOMAIN files =>
        LET doc == files["postgresql.tfvars.json"]
        IN  /\ Cfg.environment = "production" =>
                  /\ doc.sku_name # "B_Standard_B1ms"
                  /\ doc.geo_redundant_backup_enabled
                  /\ doc.backup_retention_days >= 14
            /\ doc.high_availability_mode = "ZoneRedundant" =>
                  doc.sku_name # "B_Standard_B1ms"
            /\ role = "developer" => doc.sku_name # "MO_Standard_E4s_v3"

\* C20 witness: a document written for a developer in production, with high
\* availability
C20_Witness ==
    /\ "postgresql.tfvars.json" \in DOMAIN files
    /\ Cfg.environment = "production"
    /\ role = "developer"
    /\ files["postgresql.tfvars.json"].high_availability_mode = "ZoneRedundant"

\* C21: a storage document written by `transform` satisfies the policy
\* postconditions: in production the replication is not LRS; a developer gets
\* neither the Premium account tier nor BlockBlobStorage; in production as
\* developer every emitted container is private.
C21_StoragePostconditions ==
    "storage.tfvars.json" \in DOMAIN files =>
        LET doc == files["storage.tfvars.json"]
        IN  /\ Cfg.environment = "production" => doc.account_replication_type # "LRS"
            /\ role = "developer" =>
                  /\ doc.account_tier # "Premium"
                  /\ doc.account_kind # "BlockBlobStorage"
            /\ (Cfg.environment = "production" /\ role = "developer") =>
                  \A i \in 1..Len(doc.containers) :
                      doc.containers[i].container_access_type = "private"

\* C21 witness: a document with a container written for a developer in production
C21_Witness ==
    /\ "storage.tfvars.json" \in DOMAIN files
    /\ Cfg.environment = "production"
    /\ role = "developer"
    /\ files["storage.tfvars.json"].containers # <<>>

\* a is b with some positions left out, the order kept
RECURSIVE IsSubList(_, _)
IsSubList(a, b) ==
    IF a = <<>> THEN TRUE
    ELSE IF b = <<>> THEN FALSE
    ELSE IF Head(a) = Head(b) THEN IsSubList(Tail(a), Tail(b))
    ELSE IsSubList(a, Tail(b))

\* the Context of the same Configuration for another role
CtxAs(r) == TransformContext(Cfg, r)

\* C22: for each resource kind validate_policies returns the same list for
\* team_lead and platform_admin, a sub-list of the developer's list; so a
\* Configuration that passes as developer passes as the other roles; and the
\* role does not change a transform document.
C22_RoleMonotone ==
    /\ LastIs("database.validate_policies") =>
          /\ role # "developer" =>
                /\ Result = DatabaseValidatePolicies(CtxAs("team_lead"))
                /\ Result = DatabaseValidatePolicies(CtxAs("platform_admin"))
                /\ IsSubList(Result, DatabaseValidatePolicies(CtxAs("developer")))
          /\ role = "developer" =>
                /\ IsSubList(DatabaseValidatePolicies(CtxAs("team_lead")), Result)
                /\ IsSubList(DatabaseValidatePolicies(CtxAs("platform_admin")), Result)
    /\ LastIs("storage.validate_policies") =>
          /\ role # "developer" =>
                /\ Result = StorageValidatePolicies(CtxAs("team_lead"))
                /\ Result = StorageValidatePolicies(CtxAs("platform_admin"))
                /\ IsSubList(Result, StorageValidatePolicies(CtxAs("developer")))
          /\ role = "developer" =>
                /\ IsSubList(StorageValidatePolicies(CtxAs("team_lead")), Result)
                /\ IsSubList(StorageValidatePolicies(CtxAs("platform_admin")), Result)
    /\ LastIs("database.transform") =>
          \A r \in UserRole : Result = DatabaseTransform(CtxAs(r))
    /\ LastIs("storage.transform") =>
          \A r \in UserRole : Result = StorageTransform(CtxAs(r))

\* C22 witness: a team_lead's storage violations, nonempty and fewer than the
\* developer's for the same Configuration
C22_Witness ==
    /\ LastIs("storage.validate_policies")
    /\ role = "team_lead"
    /\ Result # <<>>
    /\ Len(Result) < Len(StorageValidatePolicies(CtxAs("developer")))

\* C23: for a valid project the storage account names of dev, staging and
\* production are pairwise distinct, also when the name is truncated.
C23_EnvironmentsDistinct ==
    (LastIs("storage.transform") /\ IsSome(Cfg.storage) /\ ValidConfig(Cfg)) =>
        /\ Result.kind = "Some"
        /\ \A e \in Environment \ {Cfg.environment} :
              Result.value.name # StorageGenerateName(Cfg.project, EnvValue(e))
        /\ \A e1, e2 \in Environment :
              e1 # e2 => StorageGenerateName(Cfg.project, EnvValue(e1))
                           # StorageGenerateName(Cfg.project, EnvValue(e2))

\* C23 witness: a project of twenty letters and digits, so that only two
\* characters of the environment are left
C23_Witness ==
    /\ LastIs("storage.transform")
    /\ IsSome(Cfg.storage)
    /\ ValidConfig(Cfg)
    /\ Len(RemoveNonAlnum(Cfg.project)) = 20
    /\ Len(Result.value.name) = 24
    /\ Cfg.environment = "staging"

====
